---- MODULE Spec2Model ----
(***************************************************************************)
(* A model of cursor_dev_rules/cli.py: the resource locator                *)
(* (get_rules_path), the file copier (copy_rule_file) and the fetch        *)
(* command, over an explicit filesystem.                                   *)
(*                                                                         *)
(* Strings are sequences of tokens (a token is a piece of text that holds  *)
(* no "/" unless it is the token "/" itself), so that str.split("/") is    *)
(* computed and not assumed.  A path is a sequence of segments, a segment  *)
(* is a string.  File contents are sequences of bytes.                     *)
(***************************************************************************)
EXTENDS Integers, Sequences, FiniteSets, TLC

VARIABLES
    fs,          \* the filesystem: path -> node, for every existing path
    bundle,      \* how importlib.resources.files("cursor_dev_rules") behaves
    rule_path,   \* fetch: the RULE_PATH argument
    pc,          \* position of the running operation
    category,    \* fetch: local
    framework,   \* fetch: local
    rules_path,  \* fetch: local, the handle get_rules_path returned
    output,      \* what was printed on the console, in order
    exit_code,   \* fetch: the process exit status, -1 while running
    exc,         \* fetch: the exception in flight inside the try block
    copies,      \* history: the copy_rule_file calls of the present run
    checks,      \* history: the is_file() probes of the present run
    fs0,         \* history: the filesystem when the present run started
    runs,        \* number of fetch runs started
    last_ok_fs,  \* history: the filesystem at the end of the last run that exited 0
    prev_ok_fs,  \* history: the same, one successful run earlier
    arg,         \* the arguments of a direct call of a helper function
    ret,         \* the value a direct call returned
    invocations  \* concurrent fetch runs: where each stands, and who wrote last

vars == <<fs, bundle, rule_path, pc, category, framework, rules_path, output,
          exit_code, exc, copies, checks, fs0, runs, last_ok_fs, prev_ok_fs,
          arg, ret, invocations>>

(***************************************************************************)
(* Bounds of the model.                                                    *)
(***************************************************************************)
\* longest RULE_PATH argument, in tokens
MaxArgLen == 3
\* most fetch runs in one project directory
MaxRuns == 2
\* most bytes a failing write leaves behind
MaxWritten == 1
\* longest RULE_PATH argument among those with dots, in tokens
MaxDotArgLen == 4

(***************************************************************************)
(* Strings and paths.                                                      *)
(***************************************************************************)
Slash == "/"
Tokens == {"backend", "django", Slash}

\* the one-token string s
Str(s) == <<s>>

\* the segments "." and ".."
Dot == "."
DotDot == <<Dot, Dot>>

RECURSIVE StringsUpTo(_)
StringsUpTo(n) ==
    IF n = 0 THEN {<<>>}
    ELSE LET shorter == StringsUpTo(n - 1)
         IN  shorter \cup {Append(s, t) : s \in {x \in shorter : Len(x) = n - 1}, t \in Tokens}

\* bytes
NoData == <<>>

NoPath == <<>>

\* pathlib: joining an empty segment leaves the path as it is
Join(p, seg) == IF seg = <<>> THEN p ELSE Append(p, seg)

Parent(p) == IF p = <<>> THEN p ELSE SubSeq(p, 1, Len(p) - 1)

\* p and every ancestor of p below the root
Prefixes(p) == {SubSeq(p, 1, n) : n \in 1..Len(p)}

(***************************************************************************)
(* The filesystem.  A node is a directory or a regular file with bytes;    *)
(* the root <<>> is a directory and is not listed.                         *)
(***************************************************************************)
DirNode == [kind |-> "dir", data |-> NoData]
FileNode(d) == [kind |-> "file", data |-> d]

FsExists(f, p) == p = <<>> \/ p \in DOMAIN f
FsIsDir(f, p) == p = <<>> \/ (p \in DOMAIN f /\ f[p].kind = "dir")
FsIsFile(f, p) == p \in DOMAIN f /\ f[p].kind = "file"

\* every listed path lies in a directory
WellFormedFs(f) == \A p \in DOMAIN f : p # <<>> /\ FsIsDir(f, Parent(p))

\* what a path that cannot be resolved stands for: no file is listed under it
NoSuchPath == << <<>> >>

\* the operating system walking a path: ".." leads from a directory to its
\* parent, and from anything else nowhere
RECURSIVE ResolveFrom(_, _, _)
ResolveFrom(f, at, rest) ==
    IF rest = <<>> THEN at
    ELSE IF Head(rest) = DotDot
    THEN IF FsIsDir(f, at) THEN ResolveFrom(f, Parent(at), Tail(rest)) ELSE NoSuchPath
    ELSE ResolveFrom(f, Append(at, Head(rest)), Tail(rest))

(***************************************************************************)
(* Injected failures of a filesystem step (permission denied, disk full,   *)
(* an I/O error): step names the step that fails, n the bytes a failing    *)
(* write got out before it failed.                                         *)
(***************************************************************************)
NoFault == [step |-> "none", n |-> 0]
Faults ==
    {[step |-> s, n |-> 0] : s \in {"none", "mkdir", "read", "open"}}
        \cup {[step |-> "write", n |-> k] : k \in 0..MaxWritten}

(***************************************************************************)
(* Objects the code handles as a rules directory or a rule source: a       *)
(* pathlib.Path, an importlib.resources Traversable that is no Path (a     *)
(* resource inside an archive), an object that only has read_bytes, and an *)
(* object with none of these capabilities.                                 *)
(***************************************************************************)
PathHandle(p) == [kind |-> "Path", path |-> p]
TraversableHandle(p) == [kind |-> "Traversable", path |-> p]
ReaderHandle(p) == [kind |-> "Reader", path |-> p]
PlainObject == [kind |-> "Object", path |-> NoPath]
NoHandle == [kind |-> "None", path |-> NoPath]

Attrs(kind) ==
    CASE kind = "Path" -> {"is_dir", "is_file", "exists", "read_bytes"}
      [] kind = "Traversable" -> {"is_dir", "is_file", "read_bytes"}
      [] kind = "Reader" -> {"read_bytes"}
      [] OTHER -> {}

\* hasattr(obj, name)
HasAttr(h, name) == name \in Attrs(h.kind)

\* isinstance(obj, Path)
IsInstancePath(h) == h.kind = "Path"

\* obj / segment: pathlib drops a "." segment and keeps a ".." segment
Div(h, seg) ==
    IF h.kind = "Path" /\ seg = Str(Dot) THEN h
    ELSE [h EXCEPT !.path = Join(h.path, seg)]

\* the node a handle names: a Path is resolved by the operating system, a
\* resource of an archive is looked up under its name as it stands
realpath(f, h) == IF h.kind = "Path" THEN ResolveFrom(f, <<>>, h.path) ELSE h.path

\* obj.exists(), obj.is_dir(), obj.is_file()
exists(f, h) == FsExists(f, realpath(f, h))
is_dir(f, h) == FsIsDir(f, realpath(f, h))
is_file(f, h) == FsIsFile(f, realpath(f, h))

(***************************************************************************)
(* Messages on the console.                                                *)
(***************************************************************************)
Msg(kind, p) == [kind |-> kind, path |-> p]

(***************************************************************************)
(* Exceptions: the classes an exception is an instance of.  click.Abort    *)
(* derives from RuntimeError.  A clause "except X" catches e exactly when  *)
(* X is one of Bases(e).                                                   *)
(***************************************************************************)
OSErrors == {"FileNotFoundError", "FileExistsError", "NotADirectoryError",
             "IsADirectoryError", "PermissionError"}

Bases(e) ==
    IF e \in OSErrors THEN {e, "OSError", "Exception"}
    ELSE IF e = "ModuleNotFoundError" THEN {e, "ImportError", "Exception"}
    ELSE IF e = "Abort" THEN {e, "RuntimeError", "Exception"}
    ELSE {e, "Exception"}

Catches(clause, e) == clause \cap Bases(e) # {}

(***************************************************************************)
(* get_rules_path (cli.py 14-49).                                          *)
(***************************************************************************)
RulesName == Str("rules")

\* Path(__file__)
ModuleFile == <<Str("site"), Str("cursor_dev_rules"), Str("cli.py")>>
\* where a packaged archive keeps the package
ArchivePackage == <<Str("bundle.zip"), Str("cursor_dev_rules")>>

\* importlib.resources.files("cursor_dev_rules") either raises or returns the
\* package directory (a Path) or a Traversable into the archive
RaisingBundles == {"ModuleNotFoundError", "AttributeError", "TypeError", "ValueError"}
BundleModes == RaisingBundles \cup {"path", "traversable"}

files(b) ==
    IF b = "path" THEN PathHandle(Parent(ModuleFile))
    ELSE TraversableHandle(ArchivePackage)

\* the first except clause alone, without the catch-all of lines 33-35
BundleCaught_named_only(e) ==
    Catches({"ModuleNotFoundError", "AttributeError", "TypeError"}, e)

\* the two except clauses of lines 30-35
BundleCaught(e) ==
    \/ Catches({"ModuleNotFoundError", "AttributeError", "TypeError"}, e)
    \/ Catches({"Exception"}, e)

\* lines 21-35: the handle returned from inside the try block (NoHandle when
\* the block falls through), or the exception that leaves it
BundleProbe(f, b) ==
    IF b \in RaisingBundles
    THEN [raised |-> IF BundleCaught(b) THEN "none" ELSE b, value |-> NoHandle]
    ELSE LET package_ref == files(b)
             rules_ref == Div(package_ref, RulesName)
         IN  IF HasAttr(rules_ref, "is_dir") /\ is_dir(f, rules_ref)
             THEN [raised |-> "none", value |-> rules_ref]
             ELSE IF IsInstancePath(rules_ref) /\ exists(f, rules_ref) /\ is_dir(f, rules_ref)
             THEN [raised |-> "none", value |-> rules_ref]
             ELSE [raised |-> "none", value |-> NoHandle]

\* lines 38-39
AdjacentRules == PathHandle(Join(Parent(ModuleFile), RulesName))
\* lines 44-45
ProjectRootRules == PathHandle(Join(Parent(Parent(ModuleFile)), RulesName))

\* the two fallbacks probed in the other order
FallbackProbe_project_root_first(f) ==
    IF exists(f, ProjectRootRules) /\ is_dir(f, ProjectRootRules)
    THEN [raised |-> "none", value |-> ProjectRootRules]
    ELSE IF exists(f, AdjacentRules) /\ is_dir(f, AdjacentRules)
    THEN [raised |-> "none", value |-> AdjacentRules]
    ELSE [raised |-> "FileNotFoundError", value |-> NoHandle]

\* lines 37-49
FallbackProbe(f) ==
    IF exists(f, AdjacentRules) /\ is_dir(f, AdjacentRules)
    THEN [raised |-> "none", value |-> AdjacentRules]
    ELSE IF exists(f, ProjectRootRules) /\ is_dir(f, ProjectRootRules)
    THEN [raised |-> "none", value |-> ProjectRootRules]
    ELSE [raised |-> "FileNotFoundError", value |-> NoHandle]

get_rules_path(f, b) ==
    LET first == BundleProbe(f, b)
    IN  IF first.raised # "none" \/ first.value # NoHandle THEN first
        ELSE FallbackProbe(f)

(***************************************************************************)
(* copy_rule_file (cli.py 52-76).  Each step returns the filesystem it     *)
(* leaves and whether it raised.                                           *)
(***************************************************************************)
\* mkdir(exist_ok=True) without parents=True: the parent's parent must exist
mkdir_parents_single_level(f, p, fault) ==
    IF fault.step = "mkdir" THEN [raised |-> "PermissionError", fs |-> f]
    ELSE IF ~FsIsDir(f, Parent(p)) THEN [raised |-> "FileNotFoundError", fs |-> f]
    ELSE IF FsIsFile(f, p) THEN [raised |-> "FileExistsError", fs |-> f]
    ELSE [raised |-> "none",
          fs |-> [q \in DOMAIN f \cup {p} |-> IF q \in DOMAIN f THEN f[q] ELSE DirNode]]

\* dest.parent.mkdir(parents=True, exist_ok=True), line 58
mkdir_parents(f, p, fault) ==
    IF fault.step = "mkdir" THEN [raised |-> "PermissionError", fs |-> f]
    ELSE IF \E q \in Prefixes(p) : q \in DOMAIN f /\ f[q].kind # "dir"
    THEN [raised |-> IF FsIsFile(f, p) THEN "FileExistsError" ELSE "NotADirectoryError",
          fs |-> f]
    ELSE [raised |-> "none",
          fs |-> [q \in DOMAIN f \cup Prefixes(p) |->
                     IF q \in DOMAIN f THEN f[q] ELSE DirNode]]

Min(a, b) == IF a < b THEN a ELSE b

\* source.read_bytes(), lines 63 and 70
read_bytes(f, source, fault) ==
    IF ~HasAttr(source, "read_bytes") THEN [raised |-> "AttributeError", data |-> NoData]
    ELSE IF is_dir(f, source) THEN [raised |-> "IsADirectoryError", data |-> NoData]
    ELSE IF ~is_file(f, source) THEN [raised |-> "FileNotFoundError", data |-> NoData]
    ELSE IF fault.step = "read" THEN [raised |-> "OSError", data |-> NoData]
    ELSE [raised |-> "none", data |-> f[realpath(f, source)].data]

\* the destination opened for appending: what it held stays in front
write_bytes_append(f, dest, data, fault) ==
    IF ~FsIsDir(f, Parent(dest)) THEN [raised |-> "FileNotFoundError", fs |-> f]
    ELSE IF FsIsDir(f, dest) THEN [raised |-> "IsADirectoryError", fs |-> f]
    ELSE IF fault.step = "open" THEN [raised |-> "PermissionError", fs |-> f]
    ELSE LET old == IF FsIsFile(f, dest) THEN f[dest].data ELSE NoData
             new == IF fault.step = "write" /\ Len(data) > 0
                    THEN SubSeq(data, 1, Min(fault.n, Len(data) - 1))
                    ELSE data
         IN  [raised |-> IF new = data THEN "none" ELSE "OSError",
              fs |-> [q \in DOMAIN f \cup {dest} |->
                         IF q = dest THEN FileNode(old \o new) ELSE f[q]]]

\* dest.write_bytes(content), lines 64 and 71: open for writing truncates, then
\* the bytes are written; a write that fails leaves the bytes it got out
write_bytes(f, dest, data, fault) ==
    IF ~FsIsDir(f, Parent(dest)) THEN [raised |-> "FileNotFoundError", fs |-> f]
    ELSE IF FsIsDir(f, dest) THEN [raised |-> "IsADirectoryError", fs |-> f]
    ELSE IF fault.step = "open" THEN [raised |-> "PermissionError", fs |-> f]
    ELSE IF fault.step = "write" /\ Len(data) > 0
    THEN [raised |-> "OSError",
          fs |-> [q \in DOMAIN f \cup {dest} |->
                     IF q = dest
                     THEN FileNode(SubSeq(data, 1, Min(fault.n, Len(data) - 1)))
                     ELSE f[q]]]
    ELSE [raised |-> "none",
          fs |-> [q \in DOMAIN f \cup {dest} |-> IF q = dest THEN FileNode(data) ELSE f[q]]]

\* lines 63-64 and 70-71
ReadThenWrite(f, source, dest, fault) ==
    LET content == read_bytes(f, source, fault)
    IN  IF content.raised = "none" THEN write_bytes(f, dest, content.data, fault)
        ELSE [raised |-> content.raised, fs |-> f]

\* shutil.copy2(source, dest), line 67: the source is opened, then the
\* destination, and the bytes go across
copy2(f, source, dest, fault) ==
    IF is_dir(f, source) THEN [raised |-> "IsADirectoryError", fs |-> f]
    ELSE IF ~is_file(f, source) THEN [raised |-> "FileNotFoundError", fs |-> f]
    ELSE IF fault.step = "read" THEN [raised |-> "OSError", fs |-> f]
    ELSE write_bytes(f, dest, f[realpath(f, source)].data, fault)

\* lines 60-71: which way the bytes are read
CopyMethod(source) ==
    IF HasAttr(source, "read_bytes") THEN "read_bytes"
    ELSE IF IsInstancePath(source) THEN "copy2"
    ELSE "read_bytes"

\* lines 58-71, the body of the try block
CopyBody(f, source, dest, fault) ==
    LET made == mkdir_parents(f, Parent(dest), fault)
    IN  IF made.raised # "none" THEN made
        ELSE IF CopyMethod(source) = "copy2" THEN copy2(made.fs, source, dest, fault)
        ELSE ReadThenWrite(made.fs, source, dest, fault)

\* except OSError in place of except Exception
CopyCaught_os_errors_only(e) == Catches({"OSError"}, e)

\* line 74, except Exception
CopyCaught(e) == Catches({"Exception"}, e)

\* line 75
CopyDiagnostic(dest) == <<Msg("copy_error", dest)>>

\* the whole function: raised is the exception that leaves it ("none": it
\* returned), ok the value returned, printed what it put on the console,
\* failed the exception its body ended with, method the branch of lines
\* 61-71 it took ("none": line 58 raised before)
copy_rule_file(f, source, dest, fault) ==
    LET body == CopyBody(f, source, dest, fault)
        caught == body.raised # "none" /\ CopyCaught(body.raised)
    IN  [raised |-> IF caught THEN "none" ELSE body.raised,
         ok |-> body.raised = "none",
         fs |-> body.fs,
         failed |-> body.raised,
         printed |-> IF caught THEN CopyDiagnostic(dest) ELSE <<>>,
         method |-> IF mkdir_parents(f, Parent(dest), fault).raised = "none"
                    THEN CopyMethod(source) ELSE "none"]

(***************************************************************************)
(* The filesystems a run starts from: the package skeleton, a rules tree   *)
(* at each place the locator probes, and the project directory.            *)
(***************************************************************************)
RuleFile == Str("RULE.md")
General == Str("general")
CodePatterns == Str("code-patterns")
Backend == Str("backend")
Django == Str("django")

\* rule files a rules directory may hold, relative to it: the two of the
\* documented layout and the ones an empty segment would name
RuleFiles ==
    << <<Backend, General, RuleFile>>, <<Backend, Django, RuleFile>>,
       <<General, RuleFile>>, <<Backend, RuleFile>>, <<Django, RuleFile>>,
       <<RuleFile>> >>

\* which of them are regular files, and which are directories called RULE.md
TreeShapes ==
    { [files |-> {1, 2}, dirs |-> {}],
      [files |-> {2}, dirs |-> {}],
      [files |-> {1}, dirs |-> {}],
      [files |-> {}, dirs |-> {}],
      [files |-> {2}, dirs |-> {1}],
      [files |-> {1}, dirs |-> {2}],
      [files |-> {1, 3, 4, 5, 6}, dirs |-> {}] }

\* the bytes of rule file i of rules directory number rootId
RuleData(rootId, i) == <<rootId, i>>

DirsAt(paths) == [q \in UNION {Prefixes(p) : p \in paths} |-> DirNode]

RulesTree(root, rootId, kind, shape) ==
    IF kind = "absent" THEN DirsAt({Parent(root)})
    ELSE IF kind = "file" THEN (root :> FileNode(RuleData(rootId, 0))) @@ DirsAt({Parent(root)})
    ELSE [p \in {root \o RuleFiles[i] : i \in shape.files} |->
              FileNode(RuleData(rootId, CHOOSE i \in shape.files : p = root \o RuleFiles[i]))]
         @@ DirsAt({root} \cup {root \o RuleFiles[i] : i \in shape.files \cup shape.dirs})

ArchiveRules == Join(ArchivePackage, RulesName)

PackageSkeleton == (ModuleFile :> FileNode(<<7, 7>>)) @@ DirsAt({Parent(ModuleFile)})

Kinds == {"absent", "file", "dir"}
Layouts == [bundle : BundleModes, archive : Kinds, adjacent : Kinds, project : Kinds]

\* the installs fetch is run from: a regular install, an archive install, a
\* source checkout with the rules at the project root, and a broken install
FetchLayouts ==
    { [bundle |-> "path", archive |-> "absent", adjacent |-> "dir", project |-> "absent"],
      [bundle |-> "traversable", archive |-> "dir", adjacent |-> "absent", project |-> "absent"],
      [bundle |-> "ModuleNotFoundError", archive |-> "absent", adjacent |-> "file", project |-> "dir"],
      [bundle |-> "ValueError", archive |-> "absent", adjacent |-> "absent", project |-> "absent"] }

\* Path.cwd()
Cwd == <<Str("proj")>>

\* line 116
cursor_rules_dir(cwd) == Join(Join(cwd, Str(".cursor")), Str("rules"))
\* line 180
general_dest(cwd) == Join(Join(cursor_rules_dir(cwd), General), RuleFile)
\* the framework rule stored under the framework's name
specific_dest_by_framework(cwd) == Join(Join(cursor_rules_dir(cwd), framework), RuleFile)

\* line 191
specific_dest(cwd) == Join(Join(cursor_rules_dir(cwd), CodePatterns), RuleFile)

Readme == Join(Cwd, Str("README.md"))
StaleGeneral == <<0, 1>>
StaleSpecific == <<0, 2>>

ProjectShapes ==
    {"empty", "cursor", "rules", "stale_general", "stale_both", "cursor_is_file",
     "general_is_dir"}

\* rule files and the .cursor directory an earlier run left in the project
ExistingCursor == Join(Cwd, Str(".cursor"))
ExistingGeneral == Join(Join(Join(ExistingCursor, Str("rules")), General), RuleFile)
ExistingSpecific == Join(Join(Join(ExistingCursor, Str("rules")), CodePatterns), RuleFile)

ProjectTree(shape) ==
    (Readme :> FileNode(<<9, 9>>))
    @@ (CASE shape = "empty" -> DirsAt({Cwd})
          [] shape = "cursor" -> DirsAt({ExistingCursor})
          [] shape = "rules" -> DirsAt({Parent(Parent(ExistingGeneral))})
          [] shape = "stale_general" ->
                (ExistingGeneral :> FileNode(StaleGeneral)) @@ DirsAt({Parent(ExistingGeneral)})
          [] shape = "stale_both" ->
                (ExistingGeneral :> FileNode(StaleGeneral))
                @@ (ExistingSpecific :> FileNode(StaleSpecific))
                @@ DirsAt({Parent(ExistingGeneral), Parent(ExistingSpecific)})
          [] shape = "cursor_is_file" ->
                (ExistingCursor :> FileNode(<<8, 8>>)) @@ DirsAt({Cwd})
          [] shape = "general_is_dir" -> DirsAt({ExistingGeneral}))

InitialFs(layout, shape, project) ==
    PackageSkeleton
    @@ RulesTree(ArchiveRules, 1, layout.archive, shape)
    @@ RulesTree(AdjacentRules.path, 2, layout.adjacent, shape)
    @@ RulesTree(ProjectRootRules.path, 3, layout.project, shape)
    @@ ProjectTree(project)

(***************************************************************************)
(* fetch (cli.py 88-231).                                                  *)
(***************************************************************************)
\* rule_path.split("/"), line 96
RECURSIVE split(_)
split(str) ==
    IF str = <<>> THEN << <<>> >>
    ELSE LET rest == split(Tail(str))
         IN  IF Head(str) = Slash THEN << <<>> >> \o rest
             ELSE << <<Head(str)>> \o Head(rest) >> \o Tail(rest)

\* line 97
ParseOk(parts) == Len(parts) = 2

\* the framework source built from the general rule's path
specific_rule_source_is_general(rules, cat, fw) == Div(Div(Div(rules, cat), General), RuleFile)

\* lines 127 and 128
general_rule_source(rules, cat) == Div(Div(Div(rules, cat), General), RuleFile)

specific_rule_source(rules, cat, fw) == Div(Div(Div(rules, cat), fw), RuleFile)

\* exists() without is_file()
RuleExists_any_kind(f, source) == exists(f, source)

\* lines 135-142 and 144-151
RuleExists(f, source) ==
    IF HasAttr(source, "is_file") THEN is_file(f, source)
    ELSE IF IsInstancePath(source) THEN exists(f, source) /\ is_file(f, source)
    ELSE FALSE

\* lines 154-161 and 165-173: the panels name the path that was tried
GeneralNotFound(general, specific) == Msg("general_not_found", general.path)

\* the framework panel naming the general rule's path
FrameworkNotFound_names_general(general, specific) ==
    Msg("framework_not_found", general.path)

FrameworkNotFound(general, specific) == Msg("framework_not_found", specific.path)

\* one is_file() probe: the object probed and the exception it ended with
Probe(source, raised) == [source |-> source, raised |-> raised]

\* a failure of the probes themselves
VerifyFaults == {NoFault, [step |-> "stat", n |-> 0]}

NoSnapshot == [taken |-> FALSE, fs |-> <<>>]
Snapshot(f) == [taken |-> TRUE, fs |-> f]
NoArg == [source |-> NoHandle, dest |-> NoPath, fault |-> NoFault]
NoRet == [raised |-> "none", ok |-> FALSE, value |-> NoHandle, failed |-> "none",
          method |-> "none"]

\* no concurrent runs
NoInvocations == [at |-> <<>>, last |-> <<>>]

Raise(e) ==
    /\ exc' = e
    /\ pc' = "except"

\* lines 96-112
Parse ==
    /\ pc = "parse"
    /\ LET parts == split(rule_path)
       IN  IF ~ParseOk(parts)
           THEN /\ output' = Append(output, Msg("usage_error", NoPath))
                /\ Raise("Abort")
                /\ UNCHANGED <<category, framework>>
           ELSE /\ category' = parts[1]
                /\ framework' = parts[2]
                /\ pc' = "locate"
                /\ UNCHANGED <<output, exc>>
    /\ UNCHANGED <<fs, bundle, rule_path, rules_path, exit_code, copies, checks, fs0,
                   runs, last_ok_fs, prev_ok_fs, arg, ret, invocations>>

\* line 126
Locate ==
    /\ pc = "locate"
    /\ LET found == get_rules_path(fs, bundle)
       IN  IF found.raised # "none"
           THEN /\ Raise(found.raised)
                /\ UNCHANGED rules_path
           ELSE /\ rules_path' = found.value
                /\ pc' = "verify"
                /\ UNCHANGED exc
    /\ UNCHANGED <<fs, bundle, rule_path, category, framework, output, exit_code, copies,
                   checks, fs0, runs, last_ok_fs, prev_ok_fs, arg, ret, invocations>>

\* lines 127-176
Verify ==
    /\ pc = "verify"
    /\ \E fault \in VerifyFaults :
        LET general == general_rule_source(rules_path, category)
            specific == specific_rule_source(rules_path, category, framework)
            general_exists == RuleExists(fs, general)
            specific_exists == RuleExists(fs, specific)
        IN  IF fault.step = "stat"
            THEN /\ checks' = Append(checks, Probe(general, "PermissionError"))
                 /\ Raise("PermissionError")
                 /\ UNCHANGED output
            ELSE /\ checks' = checks \o <<Probe(general, "none"), Probe(specific, "none")>>
                 /\ IF ~general_exists
                    THEN /\ output' = Append(output, GeneralNotFound(general, specific))
                         /\ Raise("Abort")
                    ELSE IF ~specific_exists
                    THEN /\ output' = Append(output, FrameworkNotFound(general, specific))
                         /\ Raise("Abort")
                    ELSE /\ pc' = "copy_general"
                         /\ UNCHANGED <<output, exc>>
    /\ UNCHANGED <<fs, bundle, rule_path, category, framework, rules_path, exit_code,
                   copies, fs0, runs, last_ok_fs, prev_ok_fs, arg, ret, invocations>>

\* the branch of lines 181-187 going on after a copy that returned false
CopyStep_ignores_failure(source, dest, next) ==
    \E fault \in Faults :
        LET done == copy_rule_file(fs, source, dest, fault)
        IN  /\ fs' = done.fs
            /\ copies' = Append(copies, [source |-> source, dest |-> dest, ok |-> done.ok,
                                         failed |-> done.failed])
            /\ IF done.raised # "none"
               THEN /\ output' = output \o done.printed
                    /\ Raise(done.raised)
               ELSE /\ output' = output \o done.printed
                    /\ pc' = next
                    /\ UNCHANGED exc

\* one call of copy_rule_file from fetch and the branch on its result
CopyStep(source, dest, next) ==
    \E fault \in Faults :
        LET done == copy_rule_file(fs, source, dest, fault)
        IN  /\ fs' = done.fs
            /\ copies' = Append(copies, [source |-> source, dest |-> dest, ok |-> done.ok,
                                         failed |-> done.failed])
            /\ IF done.raised # "none"
               THEN /\ output' = output \o done.printed
                    /\ Raise(done.raised)
               ELSE IF done.ok
               THEN /\ output' = output \o done.printed \o <<Msg("copied", dest)>>
                    /\ pc' = next
                    /\ UNCHANGED exc
               ELSE /\ output' = output \o done.printed
                    /\ Raise("Abort")

\* lines 178-187
CopyGeneral ==
    /\ pc = "copy_general"
    /\ CopyStep(general_rule_source(rules_path, category), general_dest(Cwd), "copy_specific")
    /\ UNCHANGED <<bundle, rule_path, category, framework, rules_path, exit_code, checks,
                   fs0, runs, last_ok_fs, prev_ok_fs, arg, ret, invocations>>

\* lines 189-198
CopySpecific ==
    /\ pc = "copy_specific"
    /\ CopyStep(specific_rule_source(rules_path, category, framework), specific_dest(Cwd),
                "report")
    /\ UNCHANGED <<bundle, rule_path, category, framework, rules_path, exit_code, checks,
                   fs0, runs, last_ok_fs, prev_ok_fs, arg, ret, invocations>>

\* lines 200-211, and the command returning
Report ==
    /\ pc = "report"
    /\ output' = Append(output, Msg("success", cursor_rules_dir(Cwd)))
    /\ exit_code' = 0
    /\ pc' = "done"
    /\ prev_ok_fs' = last_ok_fs
    /\ last_ok_fs' = Snapshot(fs)
    /\ UNCHANGED <<fs, bundle, rule_path, category, framework, rules_path, exc, copies,
                   checks, fs0, runs, arg, ret, invocations>>

\* the handler returning where it should raise click.Abort()
ExitStatus_returns(e) == 0

\* the exit status click gives a command that raised e
ExitStatus(e) == 1

\* the handler of lines 213-222 printing the panel of lines 223-231
ExceptFileNotFound_as_unexpected ==
    /\ pc = "except"
    /\ Catches({"FileNotFoundError"}, exc)
    /\ output' = Append(output, Msg("unexpected_error", NoPath))
    /\ exc' = "Abort"
    /\ exit_code' = ExitStatus("Abort")
    /\ pc' = "done"
    /\ UNCHANGED <<fs, bundle, rule_path, category, framework, rules_path, copies, checks,
                   fs0, runs, last_ok_fs, prev_ok_fs, arg, ret, invocations>>

\* lines 213-222
ExceptFileNotFound ==
    /\ pc = "except"
    /\ Catches({"FileNotFoundError"}, exc)
    /\ output' = Append(output, Msg("rules_dir_not_found", NoPath))
    /\ exc' = "Abort"
    /\ exit_code' = ExitStatus("Abort")
    /\ pc' = "done"
    /\ UNCHANGED <<fs, bundle, rule_path, category, framework, rules_path, copies, checks,
                   fs0, runs, last_ok_fs, prev_ok_fs, arg, ret, invocations>>

\* the clause of line 223 written as "except OSError"
ExceptException_os_errors_only ==
    /\ pc = "except"
    /\ ~Catches({"FileNotFoundError"}, exc)
    /\ Catches({"OSError"}, exc)
    /\ output' = Append(output, Msg("unexpected_error", NoPath))
    /\ exc' = "Abort"
    /\ exit_code' = ExitStatus("Abort")
    /\ pc' = "done"
    /\ UNCHANGED <<fs, bundle, rule_path, category, framework, rules_path, copies, checks,
                   fs0, runs, last_ok_fs, prev_ok_fs, arg, ret, invocations>>

\* the handler of lines 223-231 putting the project directory back as the
\* run found it
ExceptException_rolls_back ==
    /\ pc = "except"
    /\ ~Catches({"FileNotFoundError"}, exc)
    /\ Catches({"Exception"}, exc)
    /\ output' = Append(output, Msg("unexpected_error", NoPath))
    /\ exc' = "Abort"
    /\ exit_code' = ExitStatus("Abort")
    /\ pc' = "done"
    /\ fs' = fs0
    /\ UNCHANGED <<bundle, rule_path, category, framework, rules_path, copies, checks,
                   fs0, runs, last_ok_fs, prev_ok_fs, arg, ret, invocations>>

\* lines 223-231
ExceptException ==
    /\ pc = "except"
    /\ ~Catches({"FileNotFoundError"}, exc)
    /\ Catches({"Exception"}, exc)
    /\ output' = Append(output, Msg("unexpected_error", NoPath))
    /\ exc' = "Abort"
    /\ exit_code' = ExitStatus("Abort")
    /\ pc' = "done"
    /\ UNCHANGED <<fs, bundle, rule_path, category, framework, rules_path, copies, checks,
                   fs0, runs, last_ok_fs, prev_ok_fs, arg, ret, invocations>>

\* the same command is run again in the same project directory
Rerun ==
    /\ pc = "done"
    /\ runs < MaxRuns
    /\ runs' = runs + 1
    /\ pc' = "parse"
    /\ category' = <<>>
    /\ framework' = <<>>
    /\ rules_path' = NoHandle
    /\ output' = <<>>
    /\ exit_code' = -1
    /\ exc' = "none"
    /\ copies' = <<>>
    /\ checks' = <<>>
    /\ fs0' = fs
    /\ UNCHANGED <<fs, bundle, rule_path, last_ok_fs, prev_ok_fs, arg, ret, invocations>>

Init ==
    /\ rule_path \in StringsUpTo(MaxArgLen)
    /\ \E layout \in FetchLayouts, shape \in TreeShapes, project \in ProjectShapes :
        /\ fs = InitialFs(layout, shape, project)
        /\ bundle = layout.bundle
    /\ pc = "parse"
    /\ category = <<>>
    /\ framework = <<>>
    /\ rules_path = NoHandle
    /\ output = <<>>
    /\ exit_code = -1
    /\ exc = "none"
    /\ copies = <<>>
    /\ checks = <<>>
    /\ fs0 = fs
    /\ runs = 1
    /\ last_ok_fs = NoSnapshot
    /\ prev_ok_fs = NoSnapshot
    /\ arg = NoArg
    /\ ret = NoRet
    /\ invocations = NoInvocations

Next ==
    \/ Parse
    \/ Locate
    \/ Verify
    \/ CopyGeneral
    \/ CopySpecific
    \/ Report
    \/ ExceptFileNotFound
    \/ ExceptException
    \/ Rerun

Spec == Init /\ [][Next]_vars

(***************************************************************************)
(* fetch in an environment whose calls fail between the stages: Path.cwd() *)
(* in a removed or unreadable working directory (line 115), and            *)
(* console.print on a stream that cannot encode the check mark or the      *)
(* bullet (lines 183, 194, 201-211).                                       *)
(***************************************************************************)
StageExceptions(stage) ==
    IF stage = "locate" THEN {"FileNotFoundError", "PermissionError"}
    ELSE IF stage \in {"copy_specific", "report"} THEN {"UnicodeEncodeError"}
    ELSE {}

StageRaises ==
    /\ \E e \in StageExceptions(pc) : Raise(e)
    /\ UNCHANGED <<fs, bundle, rule_path, category, framework, rules_path, output,
                   exit_code, copies, checks, fs0, runs, last_ok_fs, prev_ok_fs, arg, ret,
                   invocations>>

NextFaulty ==
    \/ Next
    \/ StageRaises

SpecFaulty == Init /\ [][NextFaulty]_vars

(***************************************************************************)
(* fetch given arguments with "." and ".." in them, from installs that     *)
(* have rule files lying next to the rules directory.                      *)
(***************************************************************************)
DotTokens == {"django", Slash, Dot}

RECURSIVE StringsOver(_, _)
StringsOver(tokens, n) ==
    IF n = 0 THEN {<<>>}
    ELSE LET shorter == StringsOver(tokens, n - 1)
         IN  shorter \cup {Append(s, t) : s \in {x \in shorter : Len(x) = n - 1}, t \in tokens}

NoFiles == [p \in {} |-> DirNode]

\* general/RULE.md and django/RULE.md in the directory that holds root
OutsideTree(root) ==
    LET general == Parent(root) \o <<General, RuleFile>>
        django == Parent(root) \o <<Django, RuleFile>>
    IN  (general :> FileNode(<<6, 1>>)) @@ (django :> FileNode(<<6, 2>>))
        @@ DirsAt({Parent(general), Parent(django)})

DotShape == [files |-> {1, 3, 4, 5, 6}, dirs |-> {}]

InitDots ==
    /\ rule_path \in StringsOver(DotTokens, MaxDotArgLen)
    /\ \E layout \in FetchLayouts, outside \in BOOLEAN, project \in {"empty", "stale_both"} :
        /\ fs = InitialFs(layout, DotShape, project)
                @@ (IF outside
                    THEN OutsideTree(AdjacentRules.path) @@ OutsideTree(ProjectRootRules.path)
                    ELSE NoFiles)
        /\ bundle = layout.bundle
    /\ pc = "parse"
    /\ category = <<>>
    /\ framework = <<>>
    /\ rules_path = NoHandle
    /\ output = <<>>
    /\ exit_code = -1
    /\ exc = "none"
    /\ copies = <<>>
    /\ checks = <<>>
    /\ fs0 = fs
    /\ runs = 1
    /\ last_ok_fs = NoSnapshot
    /\ prev_ok_fs = NoSnapshot
    /\ arg = NoArg
    /\ ret = NoRet
    /\ invocations = NoInvocations

SpecDots == InitDots /\ [][Next]_vars

(***************************************************************************)
(* get_rules_path called on its own, in every layout of the three places   *)
(* it probes and every behaviour of the bundle lookup.                     *)
(***************************************************************************)
EmptyTree == [files |-> {}, dirs |-> {}]

InitLocate ==
    /\ \E layout \in Layouts :
        /\ fs = InitialFs(layout, EmptyTree, "empty")
        /\ bundle = layout.bundle
    /\ pc = "call_locate"
    /\ rule_path = <<>>
    /\ category = <<>>
    /\ framework = <<>>
    /\ rules_path = NoHandle
    /\ output = <<>>
    /\ exit_code = -1
    /\ exc = "none"
    /\ copies = <<>>
    /\ checks = <<>>
    /\ fs0 = fs
    /\ runs = 0
    /\ last_ok_fs = NoSnapshot
    /\ prev_ok_fs = NoSnapshot
    /\ arg = NoArg
    /\ ret = NoRet
    /\ invocations = NoInvocations

LocateCall ==
    /\ pc = "call_locate"
    /\ LET found == get_rules_path(fs, bundle)
       IN  ret' = [raised |-> found.raised, ok |-> found.raised = "none",
                   value |-> found.value, failed |-> found.raised, method |-> "none"]
    /\ pc' = "returned"
    /\ UNCHANGED <<fs, bundle, rule_path, category, framework, rules_path, output,
                   exit_code, exc, copies, checks, fs0, runs, last_ok_fs, prev_ok_fs, arg,
                   invocations>>

NextLocate == LocateCall

SpecLocate == InitLocate /\ [][NextLocate]_vars

(***************************************************************************)
(* copy_rule_file called on its own, for sources of every kind and         *)
(* destinations in every prior state.                                      *)
(***************************************************************************)
CopyLayout ==
    [bundle |-> "traversable", archive |-> "dir", adjacent |-> "dir", project |-> "absent"]
CopyTree == [files |-> {1}, dirs |-> {2}]

\* a regular file, a directory and a missing file as Paths, a resource in an
\* archive, an object that only has read_bytes, and one that has nothing
CopySources ==
    { general_rule_source(AdjacentRules, Backend),
      specific_rule_source(AdjacentRules, Backend, Django),
      general_rule_source(AdjacentRules, Django),
      general_rule_source(TraversableHandle(ArchiveRules), Backend),
      ReaderHandle(general_rule_source(AdjacentRules, Backend).path),
      PlainObject }

\* the two destinations of fetch, a file in a directory that exists, a file
\* that exists, and a file whose whole parent chain is missing
CopyDests ==
    { ExistingGeneral, ExistingSpecific, Join(Cwd, RuleFile), Readme,
      <<Str("out"), Str("deep"), RuleFile>> }

InitCopy ==
    /\ \E project \in ProjectShapes : fs = InitialFs(CopyLayout, CopyTree, project)
    /\ \E source \in CopySources, dest \in CopyDests :
        arg = [source |-> source, dest |-> dest, fault |-> NoFault]
    /\ bundle = CopyLayout.bundle
    /\ pc = "call_copy"
    /\ rule_path = <<>>
    /\ category = <<>>
    /\ framework = <<>>
    /\ rules_path = NoHandle
    /\ output = <<>>
    /\ exit_code = -1
    /\ exc = "none"
    /\ copies = <<>>
    /\ checks = <<>>
    /\ fs0 = fs
    /\ runs = 0
    /\ last_ok_fs = NoSnapshot
    /\ prev_ok_fs = NoSnapshot
    /\ ret = NoRet
    /\ invocations = NoInvocations

CopyCall ==
    /\ pc = "call_copy"
    /\ \E fault \in Faults :
        LET done == copy_rule_file(fs, arg.source, arg.dest, fault)
        IN  /\ arg' = [arg EXCEPT !.fault = fault]
            /\ fs' = done.fs
            /\ output' = output \o done.printed
            /\ ret' = [raised |-> done.raised, ok |-> done.ok, value |-> NoHandle,
                       failed |-> done.failed, method |-> done.method]
    /\ pc' = "returned"
    /\ UNCHANGED <<bundle, rule_path, category, framework, rules_path, exit_code, exc,
                   copies, checks, fs0, runs, last_ok_fs, prev_ok_fs, invocations>>

NextCopy == CopyCall

SpecCopy == InitCopy /\ [][NextCopy]_vars

(***************************************************************************)
(* Two fetch runs at once in one project directory, both past the checks   *)
(* of lines 96-176, each going through its two copy_rule_file calls one    *)
(* system call at a time: the directories are made (line 58), the source   *)
(* is read (line 63), the destination is opened, which empties it, and the *)
(* bytes are written from its start (line 64).  Nothing orders the steps   *)
(* of one run against those of the other.                                  *)
(***************************************************************************)
Runs == {1, 2}
Fastapi == Str("fastapi")

\* open(dest, "wb"): the file is created or emptied
open_truncate(f, dest) ==
    IF ~FsIsDir(f, Parent(dest)) THEN [raised |-> "FileNotFoundError", fs |-> f]
    ELSE IF FsIsDir(f, dest) THEN [raised |-> "IsADirectoryError", fs |-> f]
    ELSE [raised |-> "none",
          fs |-> [q \in DOMAIN f \cup {dest} |-> IF q = dest THEN FileNode(NoData) ELSE f[q]]]

\* write(data) on a file just opened: the bytes go to offset 0 and whatever
\* the file holds beyond them stays
write_from_start(f, dest, data) ==
    LET old == f[dest].data
    IN  [q \in DOMAIN f |->
            IF q = dest THEN FileNode(data \o SubSeq(old, Len(data) + 1, Len(old)))
            ELSE f[q]]

\* the framework rule of fastapi, longer than that of django
FastapiRule ==
    (AdjacentRules.path \o <<Backend, Fastapi, RuleFile>>) :> FileNode(<<2, 7, 7>>)

\* source and destination of copy number n (1: general, 2: framework) of a run
RaceSource(fw, n) ==
    IF n = 1 THEN general_rule_source(AdjacentRules, Backend)
    ELSE specific_rule_source(AdjacentRules, Backend, fw)
RaceDest(n) == IF n = 1 THEN general_dest(Cwd) ELSE specific_dest(Cwd)

Nobody == [by |-> 0, data |-> NoData]

InitRace ==
    /\ \E project \in ProjectShapes :
        fs = FastapiRule
             @@ DirsAt({AdjacentRules.path \o <<Backend, Fastapi>>})
             @@ InitialFs([bundle |-> "path", archive |-> "absent", adjacent |-> "dir",
                           project |-> "absent"],
                          [files |-> {1, 2}, dirs |-> {}], project)
    /\ \E fws \in [Runs -> {Django, Fastapi}] :
        invocations = [at |-> [r \in Runs |-> [pc |-> "mkdir", copy |-> 1, fw |-> fws[r],
                                                 buf |-> NoData]],
                       last |-> [n \in {1, 2} |-> Nobody]]
    /\ bundle = "path"
    /\ pc = "race"
    /\ rule_path = <<>>
    /\ category = <<>>
    /\ framework = <<>>
    /\ rules_path = AdjacentRules
    /\ output = <<>>
    /\ exit_code = -1
    /\ exc = "none"
    /\ copies = <<>>
    /\ checks = <<>>
    /\ fs0 = fs
    /\ runs = 0
    /\ last_ok_fs = NoSnapshot
    /\ prev_ok_fs = NoSnapshot
    /\ arg = NoArg
    /\ ret = NoRet

\* run r moves to pc, or fails with the copy error and aborts
Moves(r, to, raised) ==
    [invocations EXCEPT !.at[r].pc = IF raised = "none" THEN to ELSE "failed"]

\* line 58
RaceMkdir(r) ==
    /\ pc = "race"
    /\ invocations.at[r].pc = "mkdir"
    /\ LET made == mkdir_parents(fs, Parent(RaceDest(invocations.at[r].copy)), NoFault)
       IN  /\ fs' = made.fs
           /\ invocations' = Moves(r, "read", made.raised)
    /\ UNCHANGED <<bundle, rule_path, pc, category, framework, rules_path, output,
                   exit_code, exc, copies, checks, fs0, runs, last_ok_fs, prev_ok_fs,
                   arg, ret>>

\* line 63
RaceRead(r) ==
    /\ pc = "race"
    /\ invocations.at[r].pc = "read"
    /\ LET me == invocations.at[r]
           content == read_bytes(fs, RaceSource(me.fw, me.copy), NoFault)
       IN  invocations' = [Moves(r, "open", content.raised) EXCEPT !.at[r].buf = content.data]
    /\ UNCHANGED <<fs, bundle, rule_path, pc, category, framework, rules_path, output,
                   exit_code, exc, copies, checks, fs0, runs, last_ok_fs, prev_ok_fs,
                   arg, ret>>

\* line 64, open
RaceOpen(r) ==
    /\ pc = "race"
    /\ invocations.at[r].pc = "open"
    /\ LET opened == open_truncate(fs, RaceDest(invocations.at[r].copy))
       IN  /\ fs' = opened.fs
           /\ invocations' = Moves(r, "write", opened.raised)
    /\ UNCHANGED <<bundle, rule_path, pc, category, framework, rules_path, output,
                   exit_code, exc, copies, checks, fs0, runs, last_ok_fs, prev_ok_fs,
                   arg, ret>>

\* line 64, write and close; then the next copy (lines 189-191) or the end
RaceWrite(r) ==
    /\ pc = "race"
    /\ invocations.at[r].pc = "write"
    /\ LET me == invocations.at[r]
       IN  /\ fs' = write_from_start(fs, RaceDest(me.copy), me.buf)
           /\ invocations' =
                [invocations EXCEPT
                    !.at[r].pc = IF me.copy = 1 THEN "mkdir" ELSE "done",
                    !.at[r].copy = 2,
                    !.last[me.copy] = [by |-> r, data |-> me.buf]]
    /\ UNCHANGED <<bundle, rule_path, pc, category, framework, rules_path, output,
                   exit_code, exc, copies, checks, fs0, runs, last_ok_fs, prev_ok_fs,
                   arg, ret>>

NextRace ==
    \E r \in Runs :
        \/ RaceMkdir(r)
        \/ RaceRead(r)
        \/ RaceOpen(r)
        \/ RaceWrite(r)

SpecRace == InitRace /\ [][NextRace]_vars

TypeOK ==
    /\ WellFormedFs(fs)
    /\ exit_code \in {-1, 0, 1}

(***************************************************************************)
(* What the claims speak of, stated without the operators of the model:    *)
(* the segments of the argument, the paths of the rules directory layout   *)
(* and of the project layout, and what a run did.                          *)
(***************************************************************************)
Range(seq) == {seq[i] : i \in DOMAIN seq}

SlashAt(str) == {i \in DOMAIN str : str[i] = Slash}

\* the argument holds exactly one "/"
OneSlash(str) == Cardinality(SlashAt(str)) = 1

\* the argument is <category>/<framework> with neither part empty
TwoNonEmptySegments(str) ==
    OneSlash(str) /\ str[1] # Slash /\ str[Len(str)] # Slash

BeforeSlash(str) == SubSeq(str, 1, (CHOOSE i \in SlashAt(str) : TRUE) - 1)
AfterSlash(str) == SubSeq(str, (CHOOSE i \in SlashAt(str) : TRUE) + 1, Len(str))

\* root/seg1/seg2/..., an empty segment adding nothing
Under(root, segs) == root \o SelectSeq(segs, LAMBDA seg : seg # <<>>)

\* <rules>/<category>/general/RULE.md and <rules>/<category>/<framework>/RULE.md
AttemptedGeneral ==
    Under(rules_path.path, <<BeforeSlash(rule_path), Str("general"), Str("RULE.md")>>)
AttemptedSpecific ==
    Under(rules_path.path, <<BeforeSlash(rule_path), AfterSlash(rule_path), Str("RULE.md")>>)

\* <cwd>/.cursor/rules/general/RULE.md and <cwd>/.cursor/rules/code-patterns/RULE.md
DestGeneral == <<Str("proj"), Str(".cursor"), Str("rules"), Str("general"), Str("RULE.md")>>
DestSpecific == <<Str("proj"), Str(".cursor"), Str("rules"), Str("code-patterns"), Str("RULE.md")>>

Located == rules_path # NoHandle
NoProbeFailed == \A i \in DOMAIN checks : checks[i].raised = "none"
NoCopyFailed == \A i \in DOMAIN copies : copies[i].failed = "none"
Holds(f, p, data) == FsIsFile(f, p) /\ f[p].data = data

\* C1: with <category>/general/RULE.md and <category>/<framework>/RULE.md both
\* files of the rules directory and no filesystem step failing, a fetch run
\* ends with exit status 0, .cursor/rules/general/RULE.md holding the bytes of
\* the general source and .cursor/rules/code-patterns/RULE.md those of the
\* framework source.
C1_FetchInstallsBothRules ==
    ( /\ pc = "done"
      /\ TwoNonEmptySegments(rule_path)
      /\ Located
      /\ FsIsFile(fs0, AttemptedGeneral)
      /\ FsIsFile(fs0, AttemptedSpecific)
      /\ NoProbeFailed
      /\ NoCopyFailed )
    => /\ exit_code = 0
       /\ Holds(fs, DestGeneral, fs0[AttemptedGeneral].data)
       /\ Holds(fs, DestSpecific, fs0[AttemptedSpecific].data)

\* fetch backend/django in a project directory with no .cursor ended well
C1_Witness ==
    /\ pc = "done"
    /\ rule_path = <<"backend", Slash, "django">>
    /\ ~FsExists(fs0, <<Str("proj"), Str(".cursor")>>)
    /\ runs = 1
    /\ exit_code = 0
    /\ Holds(fs, DestGeneral, fs0[AttemptedGeneral].data)
    /\ Holds(fs, DestSpecific, fs0[AttemptedSpecific].data)
    /\ fs[DestGeneral].data # fs[DestSpecific].data

\* C2: an argument that is not two non-empty segments around one "/" gets
\* the usage error and a non-zero exit, and the run makes no existence check
\* and no copy.
C2_MalformedArgumentIsUsageError ==
    ~TwoNonEmptySegments(rule_path)
    => /\ checks = <<>>
       /\ copies = <<>>
       /\ pc = "done" => (Msg("usage_error", NoPath) \in Range(output) /\ exit_code # 0)

\* C3: once the rules directory is located, if <category>/general/RULE.md is
\* not a file there, the run attempts no copy, leaves the filesystem as it
\* was, shows "General rule not found" with the path it tried and exits
\* non-zero, whether or not the framework rule is there.
C3_MissingGeneralRule ==
    ( /\ OneSlash(rule_path)
      /\ Located
      /\ NoProbeFailed
      /\ ~FsIsFile(fs0, AttemptedGeneral) )
    => /\ copies = <<>>
       /\ fs = fs0
       /\ pc \in {"verify", "except", "done"}
       /\ pc = "done" =>
            /\ Msg("general_not_found", AttemptedGeneral) \in Range(output)
            /\ exit_code = 1

\* the general rule is missing though the framework rule is there
C3_Witness ==
    /\ pc = "done"
    /\ TwoNonEmptySegments(rule_path)
    /\ Located
    /\ ~FsIsFile(fs0, AttemptedGeneral)
    /\ FsIsFile(fs0, AttemptedSpecific)
    /\ Msg("general_not_found", AttemptedGeneral) \in Range(output)
    /\ exit_code = 1

\* C4: if the general rule is a file and <category>/<framework>/RULE.md is
\* not, the run attempts no copy, not even of the general rule, shows
\* "Framework rule not found" with the path it tried and exits non-zero.
C4_MissingFrameworkRule ==
    ( /\ OneSlash(rule_path)
      /\ Located
      /\ NoProbeFailed
      /\ FsIsFile(fs0, AttemptedGeneral)
      /\ ~FsIsFile(fs0, AttemptedSpecific) )
    => /\ copies = <<>>
       /\ ~FsExists(fs0, DestGeneral) => ~FsExists(fs, DestGeneral)
       /\ pc \in {"verify", "except", "done"}
       /\ pc = "done" =>
            /\ Msg("framework_not_found", AttemptedSpecific) \in Range(output)
            /\ Msg("general_not_found", AttemptedGeneral) \notin Range(output)
            /\ exit_code = 1

\* the framework rule is missing, the general rule is there
C4_Witness ==
    /\ pc = "done"
    /\ TwoNonEmptySegments(rule_path)
    /\ Located
    /\ FsIsFile(fs0, AttemptedGeneral)
    /\ ~FsExists(fs0, AttemptedSpecific)
    /\ Msg("framework_not_found", AttemptedSpecific) \in Range(output)
    /\ exit_code = 1

\* C5: every run that ends with exit status 0 leaves each destination file
\* holding exactly the bytes of its source, whatever the file held before,
\* and leaves the filesystem the previous such run of the same command left.
C5_FetchIsIdempotent ==
    (pc = "done" /\ exit_code = 0)
    => /\ Holds(fs, DestGeneral, fs[AttemptedGeneral].data)
       /\ Holds(fs, DestSpecific, fs[AttemptedSpecific].data)
       /\ prev_ok_fs.taken => last_ok_fs.fs = prev_ok_fs.fs

\* a second successful run, started on the destinations the first one left,
\* ends in the filesystem the first one ended in
C5_Witness ==
    /\ pc = "done"
    /\ exit_code = 0
    /\ runs = 2
    /\ prev_ok_fs.taken
    /\ fs0 = prev_ok_fs.fs
    /\ Len(copies) = 2
    /\ fs = prev_ok_fs.fs
    /\ fs[DestGeneral].data # StaleGeneral

\* every stage of the run passed and both copies returned true
ReachedReport ==
    /\ OneSlash(rule_path)
    /\ Located
    /\ Len(checks) = 2
    /\ NoProbeFailed
    /\ FsIsFile(fs0, AttemptedGeneral)
    /\ FsIsFile(fs0, AttemptedSpecific)
    /\ Len(copies) = 2
    /\ copies[1].ok
    /\ copies[2].ok

\* C6: a run exits with status 0 exactly when it passed Parse, Locate and
\* Verify and both copies returned true; every other run exits with status 1.
C6_ExitStatus ==
    pc = "done"
    => /\ exit_code \in {0, 1}
       /\ exit_code = 0 <=> ReachedReport

\* the general rule was copied, the framework copy failed, the run exits 1
C6_Witness ==
    /\ pc = "done"
    /\ exit_code = 1
    /\ Len(copies) = 2
    /\ copies[1].ok
    /\ ~copies[2].ok

DestParents == Prefixes(Parent(DestGeneral)) \cup Prefixes(Parent(DestSpecific))

\* C7: during a run nothing changes but .cursor/rules/general/RULE.md,
\* .cursor/rules/code-patterns/RULE.md and the directories above them that
\* were missing, whatever the category and the framework are: every other
\* path, the rules directory included, is as it was when the run started.
C7_OnlyTheTwoDestinations ==
    \A p \in (DOMAIN fs \cup DOMAIN fs0) \ {DestGeneral, DestSpecific} :
        IF p \in DOMAIN fs0
        THEN p \in DOMAIN fs /\ fs[p] = fs0[p]
        ELSE p \in DestParents /\ fs[p] = DirNode

\* a run for the framework django wrote both files into a new .cursor
C7_Witness ==
    /\ pc = "done"
    /\ exit_code = 0
    /\ framework = Str("django")
    /\ ~FsExists(fs0, <<Str("proj"), Str(".cursor")>>)
    /\ FsIsFile(fs, DestGeneral)
    /\ FsIsFile(fs, DestSpecific)

(***************************************************************************)
(* Claims on copy_rule_file called on its own (SpecCopy).                  *)
(***************************************************************************)
Readable(f, source) ==
    source.kind \in {"Path", "Traversable", "Reader"} /\ FsIsFile(f, source.path)

\* nothing in the way of the destination's parent chain
ParentsFree(f, dest) == \A q \in Prefixes(Parent(dest)) : FsExists(f, q) => FsIsDir(f, q)

NoStepFails ==
    /\ arg.fault = NoFault
    /\ Readable(fs0, arg.source)
    /\ ParentsFree(fs0, arg.dest)
    /\ ~FsIsDir(fs0, arg.dest)

ParentChainExists(f, dest) == \A q \in Prefixes(Parent(dest)) : FsIsDir(f, q)

\* C8: when no filesystem step fails, copy_rule_file returns true and leaves
\* dest a file with the bytes of the source and every directory above dest
\* existing, whatever of dest and its parent chain existed before.
C8_CopyCreatesParentsAndCopies ==
    (pc = "returned" /\ NoStepFails)
    => /\ ret.raised = "none"
       /\ ret.ok
       /\ Holds(fs, arg.dest, fs0[arg.source.path].data)
       /\ ParentChainExists(fs, arg.dest)

\* a copy to a destination none of whose parents existed
C8_Witness ==
    /\ pc = "returned"
    /\ NoStepFails
    /\ arg.dest = <<Str("out"), Str("deep"), Str("RULE.md")>>
    /\ ~FsExists(fs0, <<Str("out")>>)
    /\ ret.ok
    /\ Holds(fs, arg.dest, fs0[arg.source.path].data)

\* C9: copy_rule_file never raises; when directory creation, the read or the
\* write fails it prints its diagnostic and returns false, and it returns
\* true only when all three steps completed.
C9_CopyNeverRaises ==
    pc = "returned"
    => /\ ret.raised = "none"
       /\ ~NoStepFails => (~ret.ok /\ Msg("copy_error", arg.dest) \in Range(output))
       /\ ret.ok => /\ NoStepFails
                    /\ Holds(fs, arg.dest, fs0[arg.source.path].data)
                    /\ ParentChainExists(fs, arg.dest)

\* a source with no byte-read capability: false is returned, nothing raised
C9_Witness ==
    /\ pc = "returned"
    /\ arg.source = PlainObject
    /\ ret.failed = "AttributeError"
    /\ ret.raised = "none"
    /\ ~ret.ok
    /\ Msg("copy_error", arg.dest) \in Range(output)

(***************************************************************************)
(* Claims on get_rules_path called on its own (SpecLocate).                *)
(***************************************************************************)
\* the three candidates: rules in the bundle, rules next to the module,
\* rules one level above
BundleCandidate ==
    IF bundle = "path"
    THEN PathHandle(<<Str("site"), Str("cursor_dev_rules"), Str("rules")>>)
    ELSE IF bundle = "traversable"
    THEN TraversableHandle(<<Str("bundle.zip"), Str("cursor_dev_rules"), Str("rules")>>)
    ELSE NoHandle
AdjacentCandidate == PathHandle(<<Str("site"), Str("cursor_dev_rules"), Str("rules")>>)
ParentCandidate == PathHandle(<<Str("site"), Str("rules")>>)

IsDirectory(h) == h # NoHandle /\ FsIsDir(fs, h.path)

\* C10: get_rules_path returns the first of the three candidates, in the
\* order bundle, adjacent, parent, that is an existing directory, and raises
\* FileNotFoundError exactly when none of them is.
C10_LocatorOrder ==
    pc = "returned"
    => IF IsDirectory(BundleCandidate)
       THEN ret.raised = "none" /\ ret.value = BundleCandidate
       ELSE IF IsDirectory(AdjacentCandidate)
       THEN ret.raised = "none" /\ ret.value = AdjacentCandidate
       ELSE IF IsDirectory(ParentCandidate)
       THEN ret.raised = "none" /\ ret.value = ParentCandidate
       ELSE ret.raised = "FileNotFoundError" /\ ret.value = NoHandle

\* the bundle has no rules, a regular file called rules lies next to the
\* module, and the directory one level above is returned
C10_Witness ==
    /\ pc = "returned"
    /\ bundle = "traversable"
    /\ ~FsExists(fs, BundleCandidate.path)
    /\ FsIsFile(fs, AdjacentCandidate.path)
    /\ IsDirectory(ParentCandidate)
    /\ ret.value = ParentCandidate

\* C11: whatever exception the bundle lookup raises, get_rules_path does not
\* let it out: it goes on to the adjacent and the parent candidate, and these
\* two alone decide what it returns or that it raises FileNotFoundError.
C11_BundleFailureFallsBack ==
    ( /\ pc = "returned"
      /\ bundle \in {"ModuleNotFoundError", "AttributeError", "TypeError", "ValueError"} )
    => /\ ret.raised \in {"none", "FileNotFoundError"}
       /\ ret.raised = "none" <=>
            (IsDirectory(AdjacentCandidate) \/ IsDirectory(ParentCandidate))
       /\ ret.raised = "none" =>
            ret.value = IF IsDirectory(AdjacentCandidate) THEN AdjacentCandidate
                        ELSE ParentCandidate

\* the lookup raised an exception no clause names, the archive does hold a
\* rules directory, and the adjacent directory is returned
C11_Witness ==
    /\ pc = "returned"
    /\ bundle = "ValueError"
    /\ FsIsDir(fs, <<Str("bundle.zip"), Str("cursor_dev_rules"), Str("rules")>>)
    /\ IsDirectory(AdjacentCandidate)
    /\ ret.raised = "none"
    /\ ret.value = AdjacentCandidate

(***************************************************************************)
(* Claims on the failures of a fetch run.                                  *)
(***************************************************************************)
\* none of the three candidates is a directory
NoRulesDirectory ==
    /\ ~IsDirectory(BundleCandidate)
    /\ ~IsDirectory(AdjacentCandidate)
    /\ ~IsDirectory(ParentCandidate)

\* C12: when the argument parses and no rules directory can be located, the
\* run shows the rules-directory-not-found message with its installation
\* hint and no other message, makes no existence check and no copy, leaves
\* the filesystem alone and exits non-zero.
C12_RulesDirectoryNotFound ==
    ( /\ OneSlash(rule_path)
      /\ NoRulesDirectory )
    => /\ checks = <<>>
       /\ copies = <<>>
       /\ fs = fs0
       /\ ~Located
       /\ pc = "done" =>
            /\ output = <<Msg("rules_dir_not_found", NoPath)>>
            /\ exit_code = 1

\* fetch backend/django where the bundle lookup raised and neither fallback
\* directory exists
C12_Witness ==
    /\ pc = "done"
    /\ rule_path = <<"backend", Slash, "django">>
    /\ bundle = "ValueError"
    /\ NoRulesDirectory
    /\ output = <<Msg("rules_dir_not_found", NoPath)>>
    /\ exit_code = 1

\* an exception that is neither the abort nor one the clause of line 213 takes
Unanticipated(e) == e \notin {"none", "Abort"} /\ ~Catches({"FileNotFoundError"}, e)

\* C13: an exception no other handler takes, raised at whatever stage, is
\* caught by fetch, which then adds the "Unexpected error" message and ends
\* with a non-zero exit; nothing but the abort leaves fetch.
C13_UnexpectedErrorIsCaught ==
    /\ [](pc = "except" => ENABLED <<NextFaulty>>_vars)
    /\ [][ (pc = "except" /\ Unanticipated(exc))
           => /\ pc' = "done"
              /\ output' = Append(output, Msg("unexpected_error", NoPath))
              /\ exit_code' = 1
              /\ exc' = "Abort"
              /\ fs' = fs ]_vars
    /\ [](pc = "done" => exc \in {"none", "Abort"})

\* both copies were made, printing the summary raised, and the run ended
\* with the "Unexpected error" message and exit status 1
C13_Witness ==
    /\ pc = "done"
    /\ Len(copies) = 2
    /\ NoCopyFailed
    /\ Msg("success", <<Str("proj"), Str(".cursor"), Str("rules")>>) \notin Range(output)
    /\ output[Len(output)] = Msg("unexpected_error", NoPath)
    /\ exit_code = 1
    /\ exc = "Abort"

(***************************************************************************)
(* Claims on the two copies of a fetch run.                                *)
(***************************************************************************)
DirSpecific == <<Str("proj"), Str(".cursor"), Str("rules"), Str("code-patterns")>>

\* path p is now what it was when the run began
AsBefore(p) ==
    /\ FsExists(fs, p) <=> FsExists(fs0, p)
    /\ FsExists(fs, p) => fs[p] = fs0[p]

\* C14: the general rule is copied first and the framework rule second; when
\* the copy of the general rule fails the run stops there: no copy of the
\* framework rule is attempted, code-patterns/RULE.md and its directory are
\* as before, and the exit status is non-zero.
C14_GeneralBeforeFramework ==
    /\ Len(copies) <= 2
    /\ pc \in {"parse", "locate", "verify", "copy_general"} => copies = <<>>
    /\ Len(copies) >= 1 => copies[1].dest = DestGeneral
    /\ Len(copies) = 2 => (copies[1].ok /\ copies[2].dest = DestSpecific)
    /\ (Len(copies) >= 1 /\ ~copies[1].ok)
       => /\ Len(copies) = 1
          /\ pc \in {"except", "done"}
          /\ AsBefore(DestSpecific)
          /\ AsBefore(DirSpecific)
          /\ pc = "done" => exit_code = 1

\* the copy of the general rule failed in a project that had no
\* code-patterns directory, and the run ended without creating it
C14_Witness ==
    /\ pc = "done"
    /\ Len(copies) = 1
    /\ copies[1].dest = DestGeneral
    /\ ~copies[1].ok
    /\ FsIsDir(fs0, <<Str("proj"), Str(".cursor"), Str("rules")>>)
    /\ ~FsExists(fs0, DirSpecific)
    /\ ~FsExists(fs, DirSpecific)
    /\ exit_code = 1

\* C15: when the general rule was copied and the copy of the framework rule
\* fails, the run exits non-zero and undoes nothing: general/RULE.md keeps
\* the bytes just copied into it.
C15_NoRollback ==
    ( /\ Len(copies) = 2
      /\ copies[1].ok
      /\ ~copies[2].ok )
    => /\ pc \in {"except", "done"}
       /\ Holds(fs, DestGeneral, fs0[AttemptedGeneral].data)
       /\ pc = "done" =>
            /\ exit_code = 1
            /\ Msg("copy_error", DestSpecific) \in Range(output)

\* general/RULE.md did not exist, it was written, the copy of the framework
\* rule then failed, and the run is over with the new file in place
C15_Witness ==
    /\ pc = "done"
    /\ Len(copies) = 2
    /\ copies[1].ok
    /\ ~copies[2].ok
    /\ ~FsExists(fs0, DestGeneral)
    /\ Holds(fs, DestGeneral, fs0[AttemptedGeneral].data)
    /\ exit_code = 1

(***************************************************************************)
(* Claim on the branch copy_rule_file takes (SpecCopy).                    *)
(***************************************************************************)
\* C16: copy_rule_file reads by the kind of its source: a resource handle
\* that is no filesystem path through read_bytes, a pathlib.Path through
\* shutil.copy2.
C16_CopyMethodByKind ==
    ( /\ pc = "returned"
      /\ ret.method # "none" )
    => /\ arg.source.kind = "Path" => ret.method = "copy2"
       /\ arg.source.kind \in {"Traversable", "Reader"} => ret.method = "read_bytes"

(***************************************************************************)
(* Claim on the messages of a failing run.                                 *)
(***************************************************************************)
ErrorKinds ==
    {"usage_error", "rules_dir_not_found", "general_not_found", "framework_not_found",
     "copy_error", "unexpected_error"}

\* the categories of error the run has shown
Shown == {output[i].kind : i \in DOMAIN output} \cap ErrorKinds

\* C18: a run that fails shows the message of exactly one category of error;
\* after a usage error, a missing general or framework rule or a failed copy
\* there is no "Unexpected error" message as well.
C18_OneErrorCategory ==
    (pc = "done" /\ exit_code # 0) => Cardinality(Shown) = 1

(***************************************************************************)
(* Claim on where the sources lie (SpecDots).                              *)
(***************************************************************************)
\* p lies below root
Inside(root, p) == Len(p) > Len(root) /\ SubSeq(p, 1, Len(root)) = root

\* the files of the rules directory that was located, as the run found them
RuleFilesInside ==
    {p \in DOMAIN fs0 : FsIsFile(fs0, p) /\ Inside(rules_path.path, p)}

\* C19: whatever argument passes the parse, "." and ".." segments included,
\* a file that fetch copies lies inside the rules directory the locator
\* returned: the bytes a successful copy put at its destination are those of
\* a file below that directory.
C19_SourcesInsideRulesDirectory ==
    \A i \in DOMAIN copies :
        copies[i].ok =>
            \E p \in RuleFilesInside : Holds(fs, copies[i].dest, fs0[p].data)

(***************************************************************************)
(* Claim on two runs at once (SpecRace).                                   *)
(***************************************************************************)
Ended(r) == invocations.at[r].pc \in {"done", "failed"}

\* C17: two fetch runs at once in one project directory both come to an end
\* under every interleaving of their copy steps, and each destination file
\* then holds exactly the bytes of the run that wrote it last, never a mix
\* of the two sources.
C17_LastWriterWins ==
    /\ (\E r \in Runs : ~Ended(r)) => ENABLED <<NextRace>>_vars
    /\ (\A r \in Runs : Ended(r))
       => /\ invocations.last[1].by # 0 => Holds(fs, DestGeneral, invocations.last[1].data)
          /\ invocations.last[2].by # 0 => Holds(fs, DestSpecific, invocations.last[2].data)

====
